---- MODULE Spec2Model ----
(***************************************************************************)
(* The rotation control daemon of pvpn-rotator.py: VPNRotatorDaemon        *)
(* (__init__, read_command, process_command, run, stop), the config store  *)
(* (load_config, save_config), the list provider (get_active_list) and the *)
(* writers of the control pipe (send_command).                             *)
(*                                                                         *)
(* A text token is a sequence of one-character strings, a command line a   *)
(* sequence of tokens, the control pipe a sequence of pending lines.       *)
(* Wall-clock time is abstracted: a sleep is a step, and whether the wait  *)
(* interval has elapsed is the environment's choice at every wait tick.    *)
(***************************************************************************)
EXTENDS Integers, Sequences, FiniteSets, TLC

VARIABLES
    pc,                  \* position of the daemon process in cli_control/run
    config,              \* self.config, the in-memory snapshot
    disk,                \* CONFIG_FILE, the persisted snapshot
    paused,              \* self.paused
    shutdown,            \* self.shutdown
    current_connection,  \* self.current_connection
    idx,                 \* run's local idx
    servers,             \* run's local servers
    elapsed,             \* run's local elapsed, as "lt"/"ge" interval_seconds
    pipe,                \* lines pending in CONTROL_FILE
    pid_file,            \* PID_FILE exists
    files,               \* LIST_A_FILE and LIST_B_FILE
    vpn,                 \* backend: server of the last successful connect not yet disconnected
    received,            \* log: action and argument of the command the last step processed
    calls,               \* log: backend calls the last step invoked, with connect's result
    status,              \* log: the status line the last step printed
    history,             \* the last notable event, no command processed since
    fifo,                \* CONTROL_FILE exists
    blocked,             \* lines of the writers blocked in open(CONTROL_FILE, 'w')
    sent                 \* log: what send_command returned in the last step

vars == <<pc, config, disk, paused, shutdown, current_connection, idx, servers,
          elapsed, pipe, pid_file, files, vpn, received, calls, status, history,
          fifo, blocked, sent>>

---------------------------------------------------------------------------
(* Bounds of the model *)

\* longest server list
MaxLen == 3
\* most lines pending in the control pipe between two polls
MaxPipe == 1
\* most lines pending between two polls when writers follow one another
MaxBatch == 2
\* largest cursor a skip takes the snapshot to (skip adds 1 without reduction)
MaxIndex == 3

---------------------------------------------------------------------------
(* Text *)

None == <<>>
Blank == <<>>

LowerCh(c) ==
    CASE c = "A" -> "a" [] c = "B" -> "b" [] c = "C" -> "c"
      [] c = "I" -> "i" [] c = "K" -> "k" [] c = "P" -> "p"
      [] c = "S" -> "s" [] OTHER -> c

UpperCh(c) ==
    CASE c = "a" -> "A" [] c = "b" -> "B" [] c = "c" -> "C"
      [] c = "i" -> "I" [] c = "k" -> "K" [] c = "p" -> "P"
      [] c = "s" -> "S" [] OTHER -> c

\* str.lower()
Lower(t) == [i \in DOMAIN t |-> LowerCh(t[i])]

\* str.upper()
Upper(t) == [i \in DOMAIN t |-> UpperCh(t[i])]

Digits == {"0", "1", "2", "3", "4", "5", "6", "7", "8", "9"}

DigitVal(c) ==
    CASE c = "0" -> 0 [] c = "1" -> 1 [] c = "2" -> 2 [] c = "3" -> 3
      [] c = "4" -> 4 [] c = "5" -> 5 [] c = "6" -> 6 [] c = "7" -> 7
      [] c = "8" -> 8 [] c = "9" -> 9

RECURSIVE DigitsValue(_, _)
\* the value of the digits of t read left to right after acc, underscores skipped
DigitsValue(t, acc) ==
    IF t = <<>> THEN acc
    ELSE IF Head(t) = "_" THEN DigitsValue(Tail(t), acc)
    ELSE DigitsValue(Tail(t), 10 * acc + DigitVal(Head(t)))

\* int(token): [ok, val]; ok = FALSE is ValueError.  An optional sign, then
\* digits, single underscores allowed between digits.
PyInt(t) ==
    LET signed == t # <<>> /\ Head(t) \in {"+", "-"}
        body == IF signed THEN Tail(t) ELSE t
        n == Len(body)
        wellFormed ==
            /\ n > 0
            /\ \A i \in 1..n : body[i] \in Digits \cup {"_"}
            /\ body[1] # "_" /\ body[n] # "_"
            /\ \A i \in 1..(n - 1) : ~(body[i] = "_" /\ body[i + 1] = "_")
        magnitude == DigitsValue(body, 0)
    IN  IF wellFormed
        THEN [ok |-> TRUE,
              val |-> IF signed /\ Head(t) = "-" THEN 0 - magnitude ELSE magnitude]
        ELSE [ok |-> FALSE, val |-> 0]

T_stop == <<"s", "t", "o", "p">>
T_pause == <<"p", "a", "u", "s", "e">>
T_resume == <<"r", "e", "s", "u", "m", "e">>
T_switch == <<"s", "w", "i", "t", "c", "h">>
T_interval == <<"i", "n", "t", "e", "r", "v", "a", "l">>
T_skip == <<"s", "k", "i", "p">>
T_status == <<"s", "t", "a", "t", "u", "s">>

\* The lines the CLI writes for its seven commands (cli_control)
Lines ==
    { <<T_stop>>, <<T_pause>>, <<T_resume>>, <<T_skip>>, <<T_status>>,
      <<T_switch, <<"a">>>>, <<T_switch, <<"B">>>>,
      <<T_interval, <<"5">>>> }

\* Those and what else a process may write in the pipe: other spellings, other
\* arguments, no argument, an unknown word, an empty line.
AllLines ==
    Lines \cup
    { <<<<"S", "K", "I", "P">>>>, <<<<"P", "a", "u", "s", "e">>>>,
      <<T_switch, <<"b">>>>, <<T_switch, <<"C">>>>, <<T_switch, <<"A", "B">>>>,
      <<T_switch>>,
      <<T_interval, <<"1", "4", "4", "0">>>>,
      <<T_interval, <<"1", "4", "4", "1">>>>,
      <<T_interval, <<"0">>>>, <<T_interval, <<"-", "3">>>>,
      <<T_interval, <<"5", ".", "5">>>>, <<T_interval, <<"x">>>>,
      <<T_interval>>,
      <<<<"f", "o", "o">>>>, <<>> }

RECURSIVE Flatten(_)
\* the tokens of the pending lines, in order: str.split() of what one read returns
Flatten(ls) == IF ls = <<>> THEN <<>> ELSE Head(ls) \o Flatten(Tail(ls))

---------------------------------------------------------------------------
(* Configuration store *)

DEFAULT_CONFIG ==
    [active_list |-> "A", switch_interval_minutes |-> 10, current_index |-> 0,
     running |-> FALSE, paused |-> FALSE]

NoFile == [kind |-> "nofile", data |-> DEFAULT_CONFIG]
Corrupt == [kind |-> "corrupt", data |-> DEFAULT_CONFIG]

\* save_config: the file after json.dump(config)
Saved(c) == [kind |-> "json", data |-> c]

\* load_config: [config, disk] (the file is created with the defaults when missing)
load_config(d) ==
    LET d1 == IF d.kind = "nofile" THEN Saved(DEFAULT_CONFIG) ELSE d
    IN  [config |-> IF d1.kind = "json" THEN d1.data ELSE DEFAULT_CONFIG,
         disk |-> d1]

---------------------------------------------------------------------------
(* Server lists *)

Server(l, i) == <<l, i>>

\* a list file of n entries
Entries(l, n) == [i \in 1..n |-> Server(l, i)]

AbsentFile == [exists |-> FALSE, lines |-> <<>>]

\* The list files of n entries: LIST_A_FILE is absent when it has none,
\* LIST_B_FILE begins with a blank line.
ListFile(l, n) ==
    IF l = "A"
    THEN IF n = 0 THEN AbsentFile ELSE [exists |-> TRUE, lines |-> Entries(l, n)]
    ELSE [exists |-> TRUE, lines |-> <<Blank>> \o Entries(l, n)]

RECURSIVE NonBlank(_)
NonBlank(ls) ==
    IF ls = <<>> THEN <<>>
    ELSE IF Head(ls) = Blank THEN NonBlank(Tail(ls))
    ELSE <<Head(ls)>> \o NonBlank(Tail(ls))

\* get_active_list that keeps the blank lines of the file
get_active_list_unfiltered(c) ==
    LET list_file == IF c.active_list = "A" THEN files["A"] ELSE files["B"]
    IN  IF ~list_file.exists THEN <<>> ELSE list_file.lines

get_active_list(c) ==
    LET list_file == IF c.active_list = "A" THEN files["A"] ELSE files["B"]
    IN  IF ~list_file.exists THEN <<>> ELSE NonBlank(list_file.lines)

\* connect_to_server's third result, when the backend reports one
Resolved(server) == <<"@">> \o server

---------------------------------------------------------------------------
(* VPNRotatorDaemon *)

\* the daemon's fields a command can change, with the backend and what the step logs
Self ==
    [config |-> config, disk |-> disk, paused |-> paused, shutdown |-> shutdown,
     current_connection |-> current_connection, vpn |-> vpn,
     calls |-> <<>>, status |-> <<>>]

\* save_config(self.config)
save_config(s) == [s EXCEPT !.disk = Saved(s.config)]

\* VPNRotatorDaemon.disconnect_vpn
disconnect_vpn(s) ==
    [s EXCEPT !.calls = Append(@, <<"disconnect">>),
              !.vpn = None,
              !.current_connection = None]

\* the fields of the line log_status prints
StatusLine(s) ==
    [daemon |-> IF s.config.running THEN "RUNNING" ELSE "STOPPED",
     state |-> IF s.paused THEN "PAUSED" ELSE "ACTIVE",
     active_list |-> s.config.active_list,
     interval |-> s.config.switch_interval_minutes,
     idx |-> s.config.current_index,
     n |-> Len(get_active_list(s.config)),
     current |-> IF s.current_connection # None
                 THEN s.current_connection ELSE <<"None">>]

log_status(s) == [s EXCEPT !.status = Append(@, StatusLine(s))]

\* do_stop that leaves the connection up
do_stop_connected(s) ==
    save_config([s EXCEPT !.shutdown = TRUE, !.config.running = FALSE])

do_stop(s) ==
    disconnect_vpn(save_config(
        [s EXCEPT !.shutdown = TRUE, !.config.running = FALSE]))

\* do_pause that disconnects, as do_stop does
do_pause_disconnecting(s) ==
    disconnect_vpn(save_config([s EXCEPT !.paused = TRUE, !.config.paused = TRUE]))

do_pause(s) == save_config([s EXCEPT !.paused = TRUE, !.config.paused = TRUE])

\* do_resume that flips the pause flag
do_resume_toggling(s) ==
    save_config([s EXCEPT !.paused = ~s.paused, !.config.paused = ~s.paused])

do_resume(s) == save_config([s EXCEPT !.paused = FALSE, !.config.paused = FALSE])

\* do_switch without the reset of the cursor
do_switch_keeping_cursor(s, arg) ==
    LET new_list == Upper(arg)
    IN  IF new_list \in {<<"A">>, <<"B">>}
        THEN save_config([s EXCEPT !.config.active_list = new_list[1]])
        ELSE s

\* do_switch that takes any list name
do_switch_any(s, arg) ==
    save_config([s EXCEPT !.config.active_list = Upper(arg)[1],
                          !.config.current_index = 0])

do_switch(s, arg) ==
    LET new_list == Upper(arg)
    IN  IF new_list \in {<<"A">>, <<"B">>}
        THEN save_config([s EXCEPT !.config.active_list = new_list[1],
                                   !.config.current_index = 0])
        ELSE s

\* do_interval with the range test one off at its upper end
do_interval_upto_1441(s, arg) ==
    LET minutes == PyInt(arg)
    IN  IF minutes.ok /\ 1 <= minutes.val /\ minutes.val <= 1441
        THEN save_config([s EXCEPT !.config.switch_interval_minutes = minutes.val])
        ELSE s

do_interval(s, arg) ==
    LET minutes == PyInt(arg)
    IN  IF minutes.ok /\ 1 <= minutes.val /\ minutes.val <= 1440
        THEN save_config([s EXCEPT !.config.switch_interval_minutes = minutes.val])
        ELSE s

\* do_skip without its save_config
do_skip_unsaved(s) ==
    disconnect_vpn([s EXCEPT !.config.current_index = s.config.current_index + 1])

do_skip(s) ==
    disconnect_vpn(save_config(
        [s EXCEPT !.config.current_index = s.config.current_index + 1]))

\* process_command(cmd), parts == cmd.split()
process_command(s, parts) ==
    IF parts = <<>> THEN s
    ELSE LET action == Lower(parts[1])
         IN  CASE action = T_stop -> do_stop(s)
               [] action = T_pause -> do_pause(s)
               [] action = T_resume -> do_resume(s)
               [] action = T_switch /\ Len(parts) > 1 -> do_switch(s, parts[2])
               [] action = T_interval /\ Len(parts) > 1 -> do_interval(s, parts[2])
               [] action = T_skip -> do_skip(s)
               [] action = T_status -> log_status(s)
               [] OTHER -> s

\* read_command: everything pending, as one string (None when nothing is)
read_command == Flatten(pipe)

\* the action and the argument of a command, as process_command reads them
Command(parts) == SubSeq(parts, 1, IF Len(parts) < 2 THEN Len(parts) ELSE 2)

NoEvent == <<"none">>

\* The events of the history: the start; a tick on an empty list, a connect
\* that succeeded or failed (Tick); a wait expired with no command since its
\* connect (PostWait); a signal (Signal); and what a poll leaves in it, the
\* daemon going from Self to s: a stop; a switch to the other list applied
\* while Running; a pause applied with a connection established.  The error
\* a pass of the loop caught (the Raises steps) is forgotten at the next poll.
EventOfPoll(parts, s) ==
    IF parts = <<>> THEN (IF history[1] = "error" THEN NoEvent ELSE history)
    ELSE IF Lower(parts[1]) = T_stop THEN <<"stopped">>
    ELSE IF s.config.active_list # config.active_list /\ ~paused /\ ~shutdown
    THEN <<"switched", s.config.active_list>>
    ELSE IF Lower(parts[1]) = T_pause /\ current_connection # None THEN <<"paused">>
    ELSE NoEvent

\* the daemon's fields and logs after a step that leaves it in s
Becomes(s) ==
    /\ config' = s.config
    /\ disk' = s.disk
    /\ paused' = s.paused
    /\ shutdown' = s.shutdown
    /\ current_connection' = s.current_connection
    /\ vpn' = s.vpn
    /\ calls' = s.calls
    /\ status' = s.status

\* __init__ that starts every daemon unpaused
NewDaemonUnpaused(s) ==
    LET loaded == load_config(s.disk)
    IN  [s EXCEPT !.disk = loaded.disk,
                  !.config = loaded.config,
                  !.paused = FALSE,
                  !.shutdown = FALSE,
                  !.current_connection = None]

\* VPNRotatorDaemon.__init__, in a process whose store and backend are as in s
NewDaemon(s) ==
    LET loaded == load_config(s.disk)
    IN  [s EXCEPT !.disk = loaded.disk,
                  !.config = loaded.config,
                  !.paused = loaded.config.paused,
                  !.shutdown = FALSE,
                  !.current_connection = None]

\* cli_control "start": VPNRotatorDaemon(), the PID file, run() up to its loop.
\* setup_control_pipe creates the FIFO if need be and opens its read end, which
\* lets the writers blocked in open() through: their lines are pending at the
\* first poll and their send_command returns True.
Start ==
    /\ pc = "off"
    /\ Becomes(save_config([NewDaemon(Self) EXCEPT !.config.running = TRUE]))
    /\ pid_file' = TRUE
    /\ fifo' = TRUE
    /\ pipe' = blocked
    /\ blocked' = <<>>
    /\ sent' = IF blocked # <<>> THEN "ok" ELSE "none"
    /\ pc' = "loop"
    /\ received' = <<>>
    /\ history' = <<"started">>
    /\ UNCHANGED <<idx, servers, elapsed, files>>

\* one pass of "while not self.shutdown" up to "if not self.paused"
LoopIter ==
    /\ pc = "loop"
    /\ sent' = "none"
    /\ UNCHANGED <<fifo, blocked>>
    /\ IF shutdown
       THEN /\ pc' = "cleanup"
            /\ received' = <<>>
            /\ calls' = <<>>
            /\ status' = <<>>
            /\ UNCHANGED <<config, disk, paused, shutdown, current_connection, vpn,
                           pipe, history>>
       ELSE LET cmd == read_command
                s == process_command(Self, cmd)
            IN  /\ Becomes(s)
                /\ pipe' = <<>>
                /\ received' = Command(cmd)
                /\ history' = EventOfPoll(cmd, s)
                /\ pc' = IF s.shutdown THEN "cleanup"
                         ELSE IF ~s.paused THEN "tick"
                         ELSE "loop"
    /\ UNCHANGED <<idx, servers, elapsed, pid_file, files>>

\* a failure branch that leaves the cursor on the server that failed
failed_index_kept(i, list) == i

\* the cursor the failure branch stores: "(idx + 1) % len(servers)"
failed_index(i, list) == (i + 1) % Len(list)

\* the scheduling tick: the list, the cursor, the connection attempt
Tick ==
    /\ pc = "tick"
    /\ sent' = "none"
    /\ UNCHANGED <<fifo, blocked>>
    /\ received' = <<>>
    /\ status' = <<>>
    /\ LET list == get_active_list(config)
       IN  IF list = <<>>
           THEN /\ pc' = "loop"
                /\ calls' = <<>>
                /\ history' = <<"empty", config.active_list>>
                /\ UNCHANGED <<config, disk, current_connection, vpn, idx, servers,
                               elapsed>>
           ELSE LET i == config.current_index % Len(list)
                    server == list[i + 1]
                IN  \/ \E server_info \in {None, Resolved(server)} :
                         /\ calls' = <<<<"connect", server, TRUE>>>>
                         /\ current_connection' =
                              IF server_info # None THEN server_info ELSE server
                         /\ vpn' = server
                         /\ servers' = list
                         /\ idx' = i
                         /\ elapsed' = "lt"
                         /\ pc' = "wait"
                         /\ history' = <<"connected", config.active_list, i, Len(list)>>
                         /\ UNCHANGED <<config, disk>>
                    \/ /\ calls' = <<<<"connect", server, FALSE>>>>
                       /\ current_connection' = None
                       /\ config' = [config EXCEPT !.current_index = failed_index(i, list)]
                       /\ disk' = Saved(config')
                       /\ history' = <<"failed", config.active_list, i, Len(list)>>
                       /\ pc' = "loop"
                       /\ UNCHANGED <<vpn, idx, servers, elapsed>>
    /\ UNCHANGED <<paused, shutdown, pipe, pid_file, files>>

\* a wait loop that does not test the shutdown flag
WaitCheckUnflagged ==
    /\ pc = "wait"
    /\ sent' = "none"
    /\ pc' = IF elapsed = "lt" THEN "waitbody" ELSE "postwait"
    /\ received' = <<>>
    /\ calls' = <<>>
    /\ status' = <<>>
    /\ UNCHANGED <<config, disk, paused, shutdown, current_connection, idx, servers,
                   elapsed, pipe, pid_file, files, vpn, history, fifo, blocked>>

\* "while elapsed < interval_seconds and not self.shutdown"
WaitCheck ==
    /\ pc = "wait"
    /\ sent' = "none"
    /\ UNCHANGED <<fifo, blocked>>
    /\ pc' = IF elapsed = "lt" /\ ~shutdown THEN "waitbody" ELSE "postwait"
    /\ received' = <<>>
    /\ calls' = <<>>
    /\ status' = <<>>
    /\ UNCHANGED <<config, disk, paused, shutdown, current_connection, idx, servers,
                   elapsed, pipe, pid_file, files, vpn, history>>

\* one tick of the wait loop: sleep, elapsed, the poll
WaitBody ==
    /\ pc = "waitbody"
    /\ sent' = "none"
    /\ UNCHANGED <<fifo, blocked>>
    /\ elapsed' \in {"lt", "ge"}
    /\ LET cmd == read_command
           s == process_command(Self, cmd)
       IN  /\ Becomes(s)
           /\ pipe' = <<>>
           /\ received' = Command(cmd)
           /\ history' = EventOfPoll(cmd, s)
           /\ pc' = IF cmd # <<>> /\ (s.shutdown \/ s.paused) THEN "postwait" ELSE "wait"
    /\ UNCHANGED <<idx, servers, pid_file, files>>

\* a wait exit that does not wrap the cursor
expired_index_unwrapped(i, list) == i + 1

\* the cursor the wait exit stores: "(idx + 1) % len(servers)"
expired_index(i, list) == (i + 1) % Len(list)

\* "Check why we exited the loop"; the iteration's locals end with it
PostWait ==
    /\ pc = "postwait"
    /\ sent' = "none"
    /\ UNCHANGED <<fifo, blocked>>
    /\ received' = <<>>
    /\ status' = <<>>
    /\ idx' = 0
    /\ servers' = <<>>
    /\ elapsed' = "lt"
    /\ IF shutdown
       THEN /\ pc' = "cleanup"
            /\ calls' = <<>>
            /\ UNCHANGED <<config, disk, current_connection, vpn>>
       ELSE IF paused
       THEN /\ pc' = "loop"
            /\ calls' = <<>>
            /\ UNCHANGED <<config, disk, current_connection, vpn>>
       ELSE LET s == save_config(
                       [disconnect_vpn(Self) EXCEPT
                           !.config.current_index = expired_index(idx, servers)])
            IN  /\ config' = s.config
                /\ disk' = s.disk
                /\ current_connection' = s.current_connection
                /\ vpn' = s.vpn
                /\ calls' = s.calls
                /\ pc' = "loop"
    /\ history' = IF ~shutdown /\ ~paused /\ history[1] = "connected"
                  THEN <<"rotated">> \o Tail(history)
                  ELSE history
    /\ UNCHANGED <<paused, shutdown, pipe, pid_file, files>>

\* "Cleanup at the end"
Cleanup ==
    /\ pc = "cleanup"
    /\ sent' = "none"
    /\ UNCHANGED <<fifo, blocked>>
    /\ config' = [config EXCEPT !.running = FALSE]
    /\ disk' = Saved(config')
    /\ pipe' = <<>>
    /\ pid_file' = FALSE
    /\ pc' = "off"
    /\ received' = <<>>
    /\ calls' = <<>>
    /\ status' = <<>>
    /\ UNCHANGED <<paused, shutdown, current_connection, idx, servers, elapsed, files,
                   vpn, history>>

\* VPNRotatorDaemon.stop, the SIGINT/SIGTERM handler
Signal ==
    /\ pc \notin {"off"}
    /\ sent' = "none"
    /\ UNCHANGED <<fifo, blocked>>
    /\ ~shutdown
    /\ shutdown' = TRUE
    /\ received' = <<>>
    /\ calls' = <<>>
    /\ status' = <<>>
    /\ history' = <<"signalled", pc>>
    /\ UNCHANGED <<pc, config, disk, paused, current_connection, idx, servers, elapsed,
                   pipe, pid_file, files, vpn>>

\* send_command(cmd) of a writer process, the daemon holding the read end.  A line
\* written while the daemon is elsewhere stays pending until its next poll: it
\* is taken as written just before that poll.
Send(line) ==
    /\ pc \in {"loop", "waitbody"}
    /\ Len(pipe) < MaxPipe
    /\ (line # <<>> /\ Lower(line[1]) = T_skip) => config.current_index < MaxIndex
    /\ pipe' = Append(pipe, line)
    /\ sent' = "ok"
    /\ received' = <<>>
    /\ calls' = <<>>
    /\ status' = <<>>
    /\ UNCHANGED <<pc, config, disk, paused, shutdown, current_connection, idx, servers,
                   elapsed, pid_file, files, vpn, history, fifo, blocked>>

\* send_command(cmd) of a writer process while no process holds the read end:
\* without the FIFO it returns False at once; with the FIFO a previous run left
\* behind, open(CONTROL_FILE, 'w') blocks until a reader opens it.
SendNoReader(line) ==
    /\ pc = "off"
    /\ (line # <<>> /\ Lower(line[1]) = T_skip) => config.current_index < MaxIndex
    /\ IF ~fifo
       THEN /\ sent' = "unavailable"
            /\ blocked' = blocked
       ELSE /\ Len(blocked) < MaxPipe
            /\ blocked' = Append(blocked, line)
            /\ sent' = "none"
    /\ received' = <<>>
    /\ calls' = <<>>
    /\ status' = <<>>
    /\ UNCHANGED <<pc, config, disk, paused, shutdown, current_connection, idx, servers,
                   elapsed, pipe, pid_file, files, vpn, history, fifo>>

\* an exception that leaves run(): the process ends where it is
after_error_uncaught == "off"

\* "except Exception as e": the error is logged, and after a sleep the loop
\* goes on with "while not self.shutdown"
after_error == "loop"

\* what a step that raises leaves of its logs and of the iteration's locals
Caught ==
    /\ pc' = after_error
    /\ history' = <<"error", pc>>
    /\ idx' = 0
    /\ servers' = <<>>
    /\ elapsed' = "lt"
    /\ received' = <<>>
    /\ calls' = <<>>
    /\ status' = <<>>
    /\ sent' = "none"
    /\ UNCHANGED <<pid_file, files, fifo, blocked>>

\* CONFIG_FILE after a save_config that raised: as it was if open() failed,
\* truncated or partly written if json.dump did
FailedSave == {disk, Corrupt}

\* read_command raises (the bytes read do not decode): what was pending is lost
PollRaises ==
    /\ pc \in {"loop", "waitbody"}
    /\ pc = "loop" => ~shutdown
    /\ pipe # <<>>
    /\ pipe' = <<>>
    /\ Caught
    /\ UNCHANGED <<config, disk, paused, shutdown, current_connection, vpn>>

\* process_command raises in its save_config: the fields are set in memory,
\* the file is not written and the branch's disconnect is not reached
CommandRaises ==
    /\ pc \in {"loop", "waitbody"}
    /\ pc = "loop" => ~shutdown
    /\ LET cmd == read_command
           s == process_command(Self, cmd)
       IN  /\ cmd # <<>>
           /\ \/ s.config # config
              \/ Lower(cmd[1]) \in {T_stop, T_pause, T_resume, T_skip}
           /\ config' = s.config
           /\ paused' = s.paused
           /\ shutdown' = s.shutdown
    /\ disk' \in FailedSave
    /\ pipe' = <<>>
    /\ Caught
    /\ UNCHANGED <<current_connection, vpn>>

\* the tick raises: in get_active_list or in connect_to_server (an error other
\* than CalledProcessError) before anything is changed, or in the save_config
\* of the failure branch
TickRaises ==
    /\ pc = "tick"
    /\ \/ UNCHANGED <<config, disk, current_connection>>
       \/ /\ get_active_list(config) # <<>>
          /\ current_connection' = None
          /\ config' = [config EXCEPT !.current_index =
                           failed_index(config.current_index % Len(get_active_list(config)),
                                        get_active_list(config))]
          /\ disk' \in FailedSave
    /\ Caught
    /\ UNCHANGED <<paused, shutdown, pipe, vpn>>

\* the wait's expiry raises: in disconnect_vpn (run() of the backend fails to
\* start it) before anything is changed, or in save_config after the disconnect
ExpiryRaises ==
    /\ pc = "postwait"
    /\ ~shutdown
    /\ ~paused
    /\ \/ UNCHANGED <<config, disk, current_connection, vpn>>
       \/ /\ current_connection' = None
          /\ vpn' = None
          /\ config' = [config EXCEPT !.current_index = expired_index(idx, servers)]
          /\ disk' \in FailedSave
    /\ Caught
    /\ UNCHANGED <<paused, shutdown, pipe>>

\* before the first start, CONFIG_FILE being one of store
InitFrom(store) ==
    /\ pc = "off"
    /\ config = DEFAULT_CONFIG
    /\ disk \in store
    /\ paused = FALSE
    /\ shutdown = FALSE
    /\ current_connection = None
    /\ idx = 0
    /\ servers = <<>>
    /\ elapsed = "lt"
    /\ pipe = <<>>
    /\ pid_file = FALSE
    /\ \E nA, nB \in 0..MaxLen : files = [l \in {"A", "B"} |->
                                            ListFile(l, IF l = "A" THEN nA ELSE nB)]
    /\ vpn = None
    /\ received = <<>>
    /\ calls = <<>>
    /\ status = <<>>
    /\ history = NoEvent
    /\ fifo = FALSE
    /\ blocked = <<>>
    /\ sent = "none"

Init == InitFrom({NoFile, Corrupt})

Next ==
    \/ Start
    \/ LoopIter
    \/ Tick
    \/ WaitCheck
    \/ WaitBody
    \/ PostWait
    \/ Cleanup
    \/ Signal
    \/ \E line \in Lines : Send(line)
    \/ \E line \in Lines : SendNoReader(line)

Spec == Init /\ [][Next]_vars

\* The daemon on full lists, written to in every spelling, one line per poll
InitParse ==
    /\ Init
    /\ files = [l \in {"A", "B"} |-> ListFile(l, MaxLen)]

NextParse ==
    \/ Start
    \/ LoopIter
    \/ Tick
    \/ WaitCheck
    \/ WaitBody
    \/ PostWait
    \/ Cleanup
    \/ Signal
    \/ \E line \in AllLines : pipe = <<>> /\ Send(line)

SpecParse == InitParse /\ [][NextParse]_vars

---------------------------------------------------------------------------
(* What the properties speak of *)

\* the entries of list l, as a tick reads them
ListOf(l) == get_active_list([active_list |-> l])

Max(a, b) == IF a >= b THEN a ELSE b

\* the step polls the pipe and processes a command whose action is word
Applies(word) == received' # <<>> /\ Lower(received'[1]) = word

\* the step is a connection attempt
Attempts == calls' # <<>> /\ calls'[1][1] = "connect"

\* the daemon is Running: started, not paused, not shutting down
Running == pc # "off" /\ ~paused /\ ~shutdown

---------------------------------------------------------------------------
(* C1: in every reachable state the cursor of the snapshot, in memory and
   persisted, satisfies 0 <= index < max(1, length(activeList)). *)
C1_CursorInRange ==
    /\ 0 <= config.current_index
    /\ config.current_index < Max(1, Len(get_active_list(config)))
    /\ disk.kind = "json" =>
         /\ 0 <= disk.data.current_index
         /\ disk.data.current_index < Max(1, Len(get_active_list(disk.data)))

(* C2: a Skip applied while Running on a non-empty list takes the cursor from
   i to (i+1) mod length(activeList), invokes disconnect exactly once,
   persists the snapshot and leaves Running/Paused unchanged. *)
C2_SkipAdvancesModLength ==
    [][(Applies(T_skip) /\ Running /\ get_active_list(config) # <<>>) =>
          /\ config'.current_index =
               (config.current_index + 1) % Len(get_active_list(config))
          /\ calls' = <<<<"disconnect">>>>
          /\ disk' = Saved(config')
          /\ paused' = paused
          /\ config'.paused = config.paused]_vars

(* C3: after a SwitchList(L) applied while Running on the other list, no
   command arriving in between, the next connection attempt selects entry 0
   of list L. *)
C3_SwitchThenFirstEntry ==
    [][(history[1] = "switched" /\ Attempts) =>
          calls'[1][2] = ListOf(history[2])[1]]_vars

\* the list a SwitchList command names: "switch" and A or B in either case
SwitchListTo(cmd) ==
    IF Len(cmd) = 2 /\ Lower(cmd[1]) = T_switch /\ cmd[2] \in {<<"A">>, <<"a">>} THEN "A"
    ELSE IF Len(cmd) = 2 /\ Lower(cmd[1]) = T_switch /\ cmd[2] \in {<<"B">>, <<"b">>} THEN "B"
    ELSE "none"

(* C4: a SwitchList(L), L in {A, B}, applied in any state leaves the snapshot
   with activeList = L and index = 0, in memory and persisted, the rest of
   the snapshot, Running/Paused and the connection as they were, and invokes
   neither connect nor disconnect. *)
C4_SwitchResetsCursor ==
    [][\A l \in {"A", "B"} :
          (received' # <<>> /\ SwitchListTo(received') = l) =>
             /\ config' = [config EXCEPT !.active_list = l, !.current_index = 0]
             /\ disk' = Saved(config')
             /\ paused' = paused
             /\ shutdown' = shutdown
             /\ calls' = <<>>
             /\ current_connection' = current_connection
             /\ vpn' = vpn]_vars

\* a switch to B was applied mid-wait, the connection made at a cursor past 0
C4_Witness ==
    /\ received # <<>>
    /\ SwitchListTo(received) = "B"
    /\ pc = "wait"
    /\ idx > 0
    /\ vpn = Server("A", idx + 1)
    /\ config.active_list = "B"
    /\ config.current_index = 0
    /\ disk = Saved(config)

(* C5: a wait that expires normally ends with exactly one disconnect and the
   cursor at (index just before expiry + 1) mod length(activeList),
   persisted, whatever commands were applied during the wait. *)
C5_ExpiryAdvancesCursor ==
    [][(pc = "postwait" /\ pc' = "loop" /\ ~shutdown /\ ~paused
          /\ get_active_list(config) # <<>>) =>
          /\ calls' = <<<<"disconnect">>>>
          /\ config'.current_index =
               (config.current_index + 1) % Len(get_active_list(config))
          /\ disk' = Saved(config')]_vars

(* C6: a Pause invokes no disconnect and leaves the connection, its identity
   and the cursor as they were; applied during a wait it ends the wait, which
   is left without a disconnect or an advance; no connection attempt is made
   while paused; a Status processed next after a Pause applied with a
   connection established reports PAUSED and an identity other than None. *)
C6_PauseKeepsConnection ==
    /\ [][Applies(T_pause) =>
            /\ paused'
            /\ calls' = <<>>
            /\ current_connection' = current_connection
            /\ vpn' = vpn
            /\ config'.current_index = config.current_index
            /\ pc = "waitbody" => pc' = "postwait"]_vars
    /\ [][(pc = "postwait" /\ paused /\ pc' # "postwait") =>
            /\ pc' \in {"loop", "cleanup"}
            /\ calls' = <<>>
            /\ current_connection' = current_connection
            /\ vpn' = vpn
            /\ config' = config]_vars
    /\ [][paused => ~Attempts]_vars
    /\ [][(history = <<"paused">> /\ status' # <<>>) =>
            /\ status'[1].state = "PAUSED"
            /\ status'[1].current # <<"None">>
            /\ status'[1].current = current_connection]_vars

\* a pause has just been applied mid-wait, the connection still up
C6_Witness ==
    /\ received = <<T_pause>>
    /\ pc = "postwait"
    /\ paused
    /\ history = <<"paused">>
    /\ vpn # None
    /\ current_connection # None
    /\ calls = <<>>

(* C7: a Stop sets the shutdown flag, persists running = false and invokes
   disconnect once; from then until the daemon has exited no backend call is
   made and the scheduler is on its way out of the loop. *)
C7_StopDisconnectsOnce ==
    /\ [][Applies(T_stop) =>
            /\ shutdown'
            /\ ~config'.running
            /\ disk' = Saved(config')
            /\ calls' = <<<<"disconnect">>>>]_vars
    /\ [][history = <<"stopped">> => calls' = <<>>]_vars
    /\ [](history = <<"stopped">> =>
            /\ pc \in {"postwait", "cleanup", "off"}
            /\ shutdown
            /\ ~disk.data.running
            /\ vpn = None)

\* a stop has just been applied mid-wait
C7_Witness ==
    /\ received = <<T_stop>>
    /\ pc = "postwait"
    /\ servers # <<>>
    /\ history = <<"stopped">>
    /\ calls = <<<<"disconnect">>>>
    /\ shutdown
    /\ disk = Saved(config)
    /\ ~disk.data.running

\* the integer an argument of interval denotes, if it denotes one
Minutes(arg) ==
    CASE arg = <<"5">> -> [int |-> TRUE, val |-> 5]
      [] arg = <<"0">> -> [int |-> TRUE, val |-> 0]
      [] arg = <<"-", "3">> -> [int |-> TRUE, val |-> 0 - 3]
      [] arg = <<"1", "4", "4", "0">> -> [int |-> TRUE, val |-> 1440]
      [] arg = <<"1", "4", "4", "1">> -> [int |-> TRUE, val |-> 1441]
      [] OTHER -> [int |-> FALSE, val |-> 0]

(* C8: a SetInterval(m) sets the interval, in memory and persisted, to m if
   and only if m is an integer with 1 <= m <= 1440; for any other argument
   (out of range, not an integer, missing) the snapshot, Running/Paused and
   the connection are unchanged; Status reports the snapshot's interval. *)
C8_IntervalIffInRange ==
    /\ [][Applies(T_interval) =>
            LET m == IF Len(received') = 2 THEN Minutes(received'[2])
                     ELSE [int |-> FALSE, val |-> 0]
            IN  /\ IF m.int /\ 1 <= m.val /\ m.val <= 1440
                   THEN /\ config' = [config EXCEPT !.switch_interval_minutes = m.val]
                        /\ disk' = Saved(config')
                   ELSE /\ config' = config
                        /\ disk' = disk
                /\ paused' = paused
                /\ shutdown' = shutdown
                /\ current_connection' = current_connection
                /\ vpn' = vpn
                /\ calls' = <<>>]_vars
    /\ [][status' # <<>> =>
            /\ config' = config
            /\ status'[1].interval = config.switch_interval_minutes]_vars

\* interval 1441 has just been ignored, the interval set earlier kept
C8_Witness ==
    /\ received = <<T_interval, <<"1", "4", "4", "1">>>>
    /\ config.switch_interval_minutes = 5
    /\ disk = Saved(config)

\* the daemon is described by Stopped, Running or Paused
DaemonState ==
    IF pc = "off" THEN "Stopped" ELSE IF paused THEN "Paused" ELSE "Running"

\* the pause flag of the snapshot a run left persisted
PersistedPaused == disk.kind = "json" /\ disk.data.paused

(* C9 as stated: starting a daemon from Stopped persists running = true and
   leaves it not Paused, whatever snapshot the previous run left. *)
C9_StartRuns ==
    [][(pc = "off" /\ pc' # "off") =>
         /\ config'.running
         /\ disk' = Saved(config')
         /\ ~paused'
         /\ ~config'.paused]_vars

(* C9: starting a daemon from Stopped persists running = true and takes the
   pause flag from the persisted snapshot: it is Running, and its first poll
   without a command proceeds to a connection attempt, when the snapshot is
   missing, unreadable or has paused = false, and it is Paused, its polls
   without a command making no attempt, when the previous run was stopped
   while Paused; a connection attempt is under way only in Running; the
   snapshot says running exactly while Running or Paused with no stop applied. *)
C9_StartRestoresPause ==
    /\ [][(pc = "off" /\ pc' # "off") =>
            /\ config'.running
            /\ disk' = Saved(config')
            /\ paused' = PersistedPaused
            /\ config'.paused = paused'
            /\ ~shutdown'
            /\ pc' = "loop"
            /\ calls' = <<>>]_vars
    /\ [][(history = <<"started">> /\ pc = "loop" /\ ~shutdown /\ pipe = <<>>
           /\ ~shutdown' /\ pipe' = <<>>) =>
            pc' = IF paused THEN "loop" ELSE "tick"]_vars
    /\ [](pc \in {"tick", "wait", "waitbody"} =>
            DaemonState = "Running" /\ config.running /\ disk = Saved(config))
    /\ []((DaemonState = "Stopped" /\ disk.kind = "json") => ~disk.data.running)
    /\ [](DaemonState # "Stopped" =>
            /\ paused = config.paused
            /\ disk = Saved(config)
            /\ config.running = (history # <<"stopped">>))

\* a daemon started on the snapshot of a run stopped while Paused
C9_Witness ==
    /\ history = <<"started">>
    /\ pc = "loop"
    /\ DaemonState = "Paused"
    /\ config.running
    /\ disk = Saved(config)
    /\ vpn = None

\* the daemon's steps, which its single thread takes one after the other
Daemon == LoopIter \/ Tick \/ WaitCheck \/ WaitBody \/ PostWait \/ Cleanup

\* the lines sent while the backend is watched failing
QuietLines == {<<T_status>>, <<T_skip>>}

NextQuiet ==
    \/ Start
    \/ LoopIter
    \/ Tick
    \/ WaitCheck
    \/ WaitBody
    \/ PostWait
    \/ Cleanup
    \/ Signal
    \/ \E line \in QuietLines : Send(line)

\* the lines sent to the daemon whose steps may raise
FaultLines == {<<T_stop>>, <<T_pause>>, <<T_resume>>, <<T_skip>>}

NextFault ==
    \/ Start
    \/ LoopIter
    \/ Tick
    \/ WaitCheck
    \/ WaitBody
    \/ PostWait
    \/ Cleanup
    \/ Signal
    \/ \E line \in FaultLines : Send(line)
    \/ PollRaises
    \/ CommandRaises
    \/ TickRaises
    \/ ExpiryRaises

SpecFault == Init /\ [][NextFault]_vars

\* cli_control "add": a line appended to the list file, created if absent
Add(l) ==
    /\ Len(NonBlank(files[l].lines)) < MaxLen
    /\ files' = [files EXCEPT ![l] =
                    [exists |-> TRUE,
                     lines |-> Append(@.lines, Server(l, Len(NonBlank(@.lines)) + 1))]]
    /\ received' = <<>>
    /\ calls' = <<>>
    /\ status' = <<>>
    /\ sent' = "none"
    /\ UNCHANGED <<pc, config, disk, paused, shutdown, current_connection, idx, servers,
                   elapsed, pipe, pid_file, vpn, history, fifo, blocked>>

\* the lines sent to the daemon whose lists are being filled
EditLines == {<<T_skip>>, <<T_switch, <<"B">>>>}

NextEdit ==
    \/ Start
    \/ LoopIter
    \/ Tick
    \/ WaitCheck
    \/ WaitBody
    \/ PostWait
    \/ Cleanup
    \/ Signal
    \/ \E line \in EditLines : Send(line)
    \/ \E l \in {"A", "B"} : Add(l)

SpecEdit == Init /\ [][NextEdit]_vars

\* the lines sent to the daemon watched shutting down
StopLines == {<<T_stop>>, <<T_pause>>}

NextStop ==
    \/ Start
    \/ LoopIter
    \/ Tick
    \/ WaitCheck
    \/ WaitBody
    \/ PostWait
    \/ Cleanup
    \/ Signal
    \/ \E line \in StopLines : Send(line)

FairStop == Init /\ [][NextStop]_vars /\ WF_vars(Daemon)

\* a CONFIG_FILE written by other hands: well-formed JSON whose interval no
\* SetInterval would have accepted
ForeignStore ==
    { Saved([DEFAULT_CONFIG EXCEPT !.switch_interval_minutes = 0]),
      Saved([DEFAULT_CONFIG EXCEPT !.switch_interval_minutes = 5000]) }

InitStore == InitFrom({NoFile, Corrupt} \cup ForeignStore)

SpecStore == InitStore /\ [][NextQuiet]_vars

\* send_command(cmd) of another writer before the daemon has polled the lines
\* already written: the FIFO holds them one after the other
SendMore(line) ==
    /\ pc \in {"loop", "waitbody"}
    /\ pipe # <<>>
    /\ Len(pipe) < MaxBatch
    /\ pipe' = Append(pipe, line)
    /\ sent' = "ok"
    /\ received' = <<>>
    /\ calls' = <<>>
    /\ status' = <<>>
    /\ UNCHANGED <<pc, config, disk, paused, shutdown, current_connection, idx, servers,
                   elapsed, pid_file, files, vpn, history, fifo, blocked>>

\* the lines of the writers that follow one another
BatchLines == {<<T_pause>>, <<T_resume>>, <<T_status>>, <<T_switch, <<"B">>>>}

NextBatch ==
    \/ Start
    \/ LoopIter
    \/ Tick
    \/ WaitCheck
    \/ WaitBody
    \/ PostWait
    \/ Cleanup
    \/ Signal
    \/ \E line \in BatchLines : Send(line)
    \/ \E line \in BatchLines : SendMore(line)

SpecBatch == Init /\ [][NextBatch]_vars

FairSpec == Init /\ [][NextQuiet]_vars /\ WF_vars(Daemon)

(* C10: a failed connection attempt clears the connection identity, sets the
   cursor to (index + 1) mod the length of the active list, persists it,
   enters no wait phase and invokes no disconnect; the attempt after it, no
   command in between, is at the advanced index; and in a list of two or more
   entries a failed attempt at one index is always followed, unless a signal
   arrives, by a command or by the outcome of an attempt at another index. *)
C10_FailureAdvances ==
    /\ [][(Attempts /\ ~calls'[1][3]) =>
            LET list == get_active_list(config)
            IN  /\ calls' = <<<<"connect", list[(config.current_index % Len(list)) + 1], FALSE>>>>
                /\ current_connection' = None
                /\ config' = [config EXCEPT
                                !.current_index = (config.current_index + 1) % Len(list)]
                /\ disk' = Saved(config')
                /\ pc' = "loop"]_vars
    /\ [][(history[1] = "failed" /\ Attempts) =>
            calls'[1][2] = ListOf(history[2])[((history[3] + 1) % history[4]) + 1]]_vars
    /\ \A k \in 0 .. MaxLen - 1 :
         (history[1] = "failed" /\ history[3] = k /\ history[4] > 1)
           ~> (shutdown \/ history[1] # "failed" \/ history[3] # k)

\* the attempt at the last entry of list A has just failed: the cursor wraps
C10_Witness ==
    /\ history = <<"failed", "A", MaxLen - 1, MaxLen>>
    /\ calls = <<<<"connect", Server("A", MaxLen), FALSE>>>>
    /\ config.active_list = "A"
    /\ config.current_index = 0
    /\ disk = Saved(config)
    /\ current_connection = None
    /\ pc = "loop"

(* C11: with no command and no signal since a connect that succeeded at
   index i of a list of length n, the next backend call is the one disconnect
   of the wait's expiry, which stores the cursor (i + 1) mod n, and the
   connection attempt after it targets entry (i + 1) mod n of that list. *)
C11_RotationCycles ==
    /\ [][(history[1] = "connected" /\ received' = <<>> /\ calls' # <<>>) =>
            /\ calls' = <<<<"disconnect">>>>
            /\ history' = <<"rotated", history[2], history[3], history[4]>>
            /\ config' = [config EXCEPT
                            !.current_index = (history[3] + 1) % history[4]]
            /\ disk' = Saved(config')
            /\ vpn' = None]_vars
    /\ [][(history[1] = "rotated" /\ received' = <<>> /\ calls' # <<>>) =>
            /\ Attempts
            /\ calls'[1][2] = ListOf(history[2])[((history[3] + 1) % history[4]) + 1]]_vars
    /\ [][(history[1] = "connected" /\ ~shutdown /\ history' # history) =>
            \/ history'[1] \in {"rotated", "signalled"}
            \/ received' # <<>>]_vars

\* the wait on the last entry of list A has expired, no command since its connect
C11_Witness ==
    /\ history = <<"rotated", "A", MaxLen - 1, MaxLen>>
    /\ calls = <<<<"disconnect">>>>
    /\ config.current_index = 0
    /\ disk = Saved(config)
    /\ vpn = None
    /\ pc = "loop"

(* C12: a send made while no daemon is listening (never started, or exited)
   returns failure without blocking, and nothing sent before a start is
   pending for the daemon that start creates. *)
C12_SendFailsFast ==
    /\ [][(pc = "off" /\ pc' = "off") =>
            /\ sent' = "unavailable"
            /\ blocked' = <<>>]_vars
    /\ [][(pc = "off" /\ pc' # "off") => pipe' = <<>>]_vars

(* C13: the control loop is left only with the shutdown flag set, and the
   daemon exits only through the end of the loop; a pass of the loop that
   raises (in the read of the pipe, in a command, in the tick, at the wait's
   expiry) is followed by the next pass, the daemon and its liveness marker
   still there, the flag set only if the command that raised was a Stop. *)
C13_LoopSurvivesErrors ==
    /\ [][(pc # "cleanup" /\ pc' = "cleanup") => shutdown']_vars
    /\ [][(pc # "off" /\ pc' = "off") => (pc = "cleanup" /\ shutdown)]_vars
    /\ [][(history' = <<"error", pc>> /\ ~(pc = "loop" /\ shutdown)) =>
            /\ pc' = "loop"
            /\ pid_file'
            /\ (shutdown' /\ ~shutdown) => ~config'.running]_vars

\* a pass raised during a wait: the daemon is back at the top of its loop
C13_Witness ==
    /\ history = <<"error", "waitbody">>
    /\ pc = "loop"
    /\ ~shutdown
    /\ pid_file
    /\ vpn # None

(* C14 as stated: once the shutdown flag is set no connection attempt is
   started. *)
C14_NoAttemptOnceFlagged == [][shutdown => ~Attempts]_vars

(* C14: once the shutdown flag is set the daemon eventually exits, and at exit
   the persisted snapshot has running = false and the liveness marker is gone;
   after a Stop command there is no connection attempt and no wait tick; a
   signal is followed by at most the rest of the pass in progress: the one
   connection attempt of a pass that had tested the flag before the signal
   came, and the wait tick in progress; no other wait tick is started. *)
C14_ShutdownExits ==
    /\ [][(shutdown /\ Attempts) => history = <<"signalled", "tick">>]_vars
    /\ []((shutdown /\ pc = "tick") => history = <<"signalled", "tick">>)
    /\ []((shutdown /\ pc = "waitbody") => history = <<"signalled", "waitbody">>)
    /\ [][(shutdown /\ pc = "wait") => pc' \in {"wait", "postwait"}]_vars
    /\ [][(shutdown /\ pc \in {"loop", "postwait"}) =>
            (pc' \in {pc, "cleanup"} /\ calls' = <<>>)]_vars
    /\ [][(pc # "off" /\ pc' = "off") =>
            /\ disk' = Saved(config')
            /\ ~disk'.data.running
            /\ ~pid_file']_vars
    /\ (shutdown /\ pc # "off") ~> (pc = "off")

\* the daemon has exited on a signal that came between a pass's test of the
\* flag and its connect: that connect was made, and no wait followed
C14_Witness ==
    /\ pc = "off"
    /\ shutdown
    /\ history[1] = "connected"
    /\ vpn # None
    /\ ~pid_file
    /\ disk = Saved(config)
    /\ ~disk.data.running

(* C15: a Resume leaves the daemon not paused with paused = false persisted
   and nothing else changed, and at the top of the loop the pass goes on to its
   tick; a Pause leaves it paused with paused = true persisted and nothing
   else changed; a Resume while Running and a Pause while Paused change
   nothing at all, and applying the same command again to the state it left
   gives that state. *)
C15_PauseResumeIdempotent ==
    /\ [][Applies(T_resume) =>
            /\ ~paused'
            /\ config' = [config EXCEPT !.paused = FALSE]
            /\ disk' = Saved(config')
            /\ ~paused => (config' = config /\ disk' = disk)
            /\ shutdown' = shutdown
            /\ current_connection' = current_connection
            /\ vpn' = vpn
            /\ calls' = <<>>
            /\ pc = "loop" => pc' = "tick"
            /\ (pc = "waitbody" /\ ~shutdown) => pc' = "wait"
            /\ do_resume(Self') = Self']_vars
    /\ [][Applies(T_pause) =>
            /\ paused'
            /\ config' = [config EXCEPT !.paused = TRUE]
            /\ disk' = Saved(config')
            /\ paused => (config' = config /\ disk' = disk /\ pc' = pc)
            /\ shutdown' = shutdown
            /\ current_connection' = current_connection
            /\ vpn' = vpn
            /\ calls' = <<>>
            /\ do_pause(Self') = Self']_vars

\* a Resume was applied during a wait, the daemon Running: the wait goes on
C15_Witness ==
    /\ received = <<T_resume>>
    /\ pc = "wait"
    /\ ~paused
    /\ ~config.paused
    /\ disk = Saved(config)
    /\ current_connection # None
    /\ vpn # None

\* lines that carry no command to apply: an unknown word, an empty line, a
\* switch to a list that is neither A nor B or to none, an interval of
\* nothing; and the line of Status
IgnoredLines ==
    { <<<<"f", "o", "o">>>>, <<>>,
      <<T_switch, <<"C">>>>, <<T_switch, <<"A", "B">>>>, <<T_switch>>,
      <<T_interval>>, <<T_status>> }

(* C16: the poll of a pending line that is unrecognized, empty, a switch or an
   interval with an invalid or missing argument, or Status, leaves the
   snapshot in memory and persisted, the pause and shutdown flags, the
   connection identity and the backend connection unchanged and invokes
   neither connect nor disconnect; only Status prints a status line. *)
C16_IgnoredLinesChangeNothing ==
    [][(pc \in {"loop", "waitbody"} /\ Len(pipe) = 1 /\ pipe[1] \in IgnoredLines
          /\ pipe' = <<>>) =>
          /\ config' = config
          /\ disk' = disk
          /\ paused' = paused
          /\ shutdown' = shutdown
          /\ current_connection' = current_connection
          /\ vpn' = vpn
          /\ calls' = <<>>
          /\ (status' # <<>>) = (pipe[1] = <<T_status>>)]_vars

\* "switch C" was polled during a wait on list A
C16_Witness ==
    /\ received = <<T_switch, <<"C">>>>
    /\ pc = "wait"
    /\ config.active_list = "A"
    /\ config.current_index = idx
    /\ disk = Saved(config)
    /\ current_connection # None
    /\ vpn = Server("A", idx + 1)

\* the entries of the active list file: its lines that are not blank
ActiveEntries ==
    LET f == files[config.active_list]
    IN  IF f.exists THEN SelectSeq(f.lines, LAMBDA line : line # Blank) ELSE <<>>

(* C17: a tick that finds the active list empty invokes neither connect nor
   disconnect, leaves the snapshot, in memory and persisted, and the
   connection unchanged and returns to the top of the loop; the connection
   attempt that follows, once the list has entries, targets entry
   (index mod length) of the list as it then is. *)
C17_EmptyListIdles ==
    /\ [][(pc = "tick" /\ pc' # "tick" /\ ActiveEntries = <<>>) =>
            /\ calls' = <<>>
            /\ config' = config
            /\ disk' = disk
            /\ current_connection' = current_connection
            /\ vpn' = vpn
            /\ pc' = "loop"
            /\ history' = <<"empty", config.active_list>>]_vars
    /\ [][(history[1] = "empty" /\ Attempts) =>
            /\ ActiveEntries # <<>>
            /\ calls'[1][2] =
                 ActiveEntries[(config.current_index % Len(ActiveEntries)) + 1]]_vars

\* the last tick found list A empty with the cursor past 0; the list has since
\* been given entries and the daemon is at its next tick
C17_Witness ==
    /\ history = <<"empty", "A">>
    /\ pc = "tick"
    /\ config.active_list = "A"
    /\ config.current_index > 0
    /\ Len(ActiveEntries) > 1
    /\ vpn = None

(* C18: whatever the store holds when the daemon starts, the interval of the
   snapshot of a started daemon, in memory and persisted, is within 1..1440. *)
C18_IntervalInRange ==
    pc # "off" =>
      /\ 1 <= config.switch_interval_minutes
      /\ config.switch_interval_minutes <= 1440
      /\ disk.kind = "json"
      /\ 1 <= disk.data.switch_interval_minutes
      /\ disk.data.switch_interval_minutes <= 1440

RECURSIVE ApplyEach(_, _)
\* the daemon after each of the lines, in the order written, was applied as a
\* command of its own
ApplyEach(s, lines) ==
    IF lines = <<>> THEN s
    ELSE ApplyEach(process_command(s, Head(lines)), Tail(lines))

(* C19: a poll that finds several lines pending applies each of them as its
   own command, in the order written: the snapshot, the flags, the status
   lines printed and the backend calls made are those of the lines applied
   one after the other. *)
C19_EachLineApplied ==
    [][(pc \in {"loop", "waitbody"} /\ pipe # <<>> /\ pipe' = <<>>) =>
          LET s == ApplyEach(Self, pipe)
          IN  /\ config' = s.config
              /\ disk' = s.disk
              /\ paused' = s.paused
              /\ shutdown' = s.shutdown
              /\ status' = s.status
              /\ calls' = s.calls]_vars

(* C20: wherever the daemon polls the pipe, the persisted snapshot equals the
   snapshot in memory and the pause flag the scheduler tests equals the
   snapshot's paused field; every step that changes the snapshot or the flag
   has saved by its end. *)
C20_WriteThrough ==
    /\ [](pc \in {"loop", "waitbody"} =>
            /\ disk = Saved(config)
            /\ paused = config.paused)
    /\ [][(config' # config \/ paused' # paused) =>
            /\ disk' = Saved(config')
            /\ paused' = config'.paused]_vars

\* a poll point of a wait, every field of the snapshot but running changed
\* since the defaults, the cursor by a skip during the wait
C20_Witness ==
    /\ pc = "waitbody"
    /\ config.active_list = "B"
    /\ config.switch_interval_minutes = 5
    /\ config.current_index > idx + 1
    /\ history # <<"started">>
    /\ disk = Saved(config)
    /\ paused = config.paused

(* C21: while the daemon is Running and in a wait phase, the backend
   connection is established and the connection identity is not None. *)
C21_ConnectedWhileWaiting ==
    (Running /\ pc \in {"wait", "waitbody"}) =>
      /\ vpn # None
      /\ current_connection # None

(* C22: once the daemon has left its loop, by a stop command or by a
   shutdown signal in any phase, no backend connection remains. *)
C22_NoConnectionAfterExit ==
    pc = "off" => vpn = None

(* C23: the scheduler invokes the backend connect only while the daemon
   holds no connection from an earlier successful connect of its own. *)
C23_NoConnectWhileConnected ==
    [][Attempts => current_connection = None]_vars

====
